---- MODULE Spec2Model ----
(***************************************************************************)
(* Model of the log-structured key-value store of src/src/main.rs: the     *)
(* write-ahead log (Log), the in-memory table (Memtable), the engine (Db)  *)
(* and the segment builder (Sst::construct).  Files are sequences of       *)
(* one-character strings; a record is encoded and decoded character by     *)
(* character as serde_json does for struct Put.                            *)
(***************************************************************************)
EXTENDS Integers, Sequences, FiniteSets, TLC

VARIABLES
    logFile,     \* bytes of <dir>/log as the operating system holds them
    durableLen,  \* number of leading bytes of logFile covered by a completed sync_all
    engine,      \* "Closed": no Db value exists; "Ready": Db::new returned Ok(Db)
    memtable,    \* Db.memtable.memtable (HashMap<String, String>)
    pc,          \* position of the Db::put in progress ("idle" when none)
    cur,         \* the Db::put in progress: its arguments, the encoded record,
                 \* and the memtable and the log file when it was called
    lastResult,  \* the last operation with its result; [op |-> "busy"] while a
                 \* Db::put is in progress
    sessionPut,  \* key -> value of the last successful put of this session
    everPut,     \* keys of every Db::put ever called (any session)
    committed,   \* the records whose Log::put completed its sync_all, in order
    nPuts,       \* number of Db::put calls so far
    nFaults,     \* number of I/O errors and crashes so far
    sstFs,       \* path -> bytes of the files written by Sst::construct
    sstIn,       \* input of the last Sst::construct call
    sstOut       \* result of the last Sst::construct call

dbVars  == <<logFile, durableLen, engine, memtable, pc, cur, lastResult,
             sessionPut, everPut, committed, nPuts, nFaults>>
sstVars == <<sstFs, sstIn, sstOut>>
vars    == <<logFile, durableLen, engine, memtable, pc, cur, lastResult,
             sessionPut, everPut, committed, nPuts, nFaults, sstFs, sstIn, sstOut>>

-----------------------------------------------------------------------------
(* Bounds *)

MaxPuts == 2

MaxFaults == 1

\* Keys and values are strings, modelled as sequences of characters.  One
\* key and one value hold a double quote, which the encoder must escape.
Keys == { <<"a">>, <<"b", "\"">> }

Values == { <<"x">>, <<"\"", "y">> }

-----------------------------------------------------------------------------
(* Results *)

Ok(v) == [tag |-> "Ok", val |-> v]

Err(kind) == [tag |-> "Err", kind |-> kind]

Some(v) == [some |-> TRUE, v |-> v]

None == [some |-> FALSE]

-----------------------------------------------------------------------------
(* Record codec: serde_json::to_string(&Put) and serde_json::from_str::<Put> *)

NL == "\n"

\* serde_json string escaping, restricted to the characters of the model
RECURSIVE Escape(_)
Escape(s) ==
    IF s = <<>> THEN <<>>
    ELSE LET c == Head(s)
         IN  (IF c = "\"" THEN <<"\\", "\"">>
              ELSE IF c = "\\" THEN <<"\\", "\\">>
              ELSE <<c>>) \o Escape(Tail(s))

KeyOpen == <<"{", "\"", "k", "e", "y", "\"", ":", "\"">>

ValueOpen == <<"\"", ",", "\"", "v", "a", "l", "u", "e", "\"", ":", "\"">>

ObjClose == <<"\"", "}">>

\* serde_json::to_string(&Put { key, value })
PutToString(key, value) ==
    KeyOpen \o Escape(key) \o ValueOpen \o Escape(value) \o ObjClose

\* TRUE iff t occurs in s starting at position i (1-based)
HasAt(s, i, t) ==
    /\ i + Len(t) - 1 <= Len(s)
    /\ \A j \in 1..Len(t) : s[i + j - 1] = t[j]

\* Reads the body of a JSON string that starts at position i of s, up to
\* the closing quote.  next is the position of the closing quote.
RECURSIVE ParseStr(_, _, _)
ParseStr(s, i, acc) ==
    IF i > Len(s) THEN [ok |-> FALSE]
    ELSE IF s[i] = "\"" THEN [ok |-> TRUE, val |-> acc, next |-> i]
    ELSE IF s[i] = "\\" THEN
        IF i + 1 <= Len(s) /\ s[i + 1] \in {"\"", "\\"}
        THEN ParseStr(s, i + 2, Append(acc, s[i + 1]))
        ELSE [ok |-> FALSE]
    ELSE ParseStr(s, i + 1, Append(acc, s[i]))

\* serde_json::from_str::<Put>(line) on the lines this program can produce:
\* an object with the fields key and value, in the order of the encoder
ParsePut(line) ==
    IF ~HasAt(line, 1, KeyOpen) THEN [ok |-> FALSE]
    ELSE LET k == ParseStr(line, Len(KeyOpen) + 1, <<>>)
         IN  IF ~k.ok \/ ~HasAt(line, k.next, ValueOpen) THEN [ok |-> FALSE]
             ELSE LET v == ParseStr(line, k.next + Len(ValueOpen), <<>>)
                  IN  IF v.ok /\ HasAt(line, v.next, ObjClose)
                           /\ v.next + 1 = Len(line)
                      THEN [ok |-> TRUE, key |-> k.val, value |-> v.val]
                      ELSE [ok |-> FALSE]

\* The positions at which a line of the file starts: the first byte, and
\* each byte that follows a newline
LineStarts(content) ==
    {i \in 1..Len(content) : i = 1 \/ content[i - 1] = NL}

\* The position of the last byte of the line that starts at position start
\* (its newline excluded)
LineEnd(content, start) ==
    IF \E j \in start..Len(content) : content[j] = NL
    THEN (CHOOSE j \in start..Len(content) :
             content[j] = NL /\ \A k \in start..(j - 1) : content[k] # NL) - 1
    ELSE Len(content)

\* BufReader::lines(): the lines of a file in order, without their
\* terminators; what follows the last newline is a line when it is not empty
Lines(content) ==
    LET starts == LineStarts(content)
    IN  [n \in 1..Cardinality(starts) |->
            LET start == CHOOSE i \in starts :
                            Cardinality({j \in starts : j < i}) = n - 1
            IN  SubSeq(content, start, LineEnd(content, start))]

-----------------------------------------------------------------------------
(* Memtable *)

EmptyMap == << >>

\* HashMap::insert
MapInsert(m, key, value) ==
    [k \in (DOMAIN m) \cup {key} |-> IF k = key THEN value ELSE m[k]]

\* Memtable::new(memtable): the argument is dropped, the table starts empty
Memtable_new(m) == EmptyMap

\* Memtable::put that keeps the value of a key already present
Memtable_put_keep(m, key, value) ==
    IF key \in DOMAIN m THEN m ELSE MapInsert(m, key, value)

\* Memtable::put
Memtable_put(m, key, value) == MapInsert(m, key, value)

\* Memtable get that yields the default string for a key it does not hold
Memtable_get_default(m, key) ==
    Ok(IF key \in DOMAIN m THEN Some(m[key]) ELSE Some(<<>>))

\* <Memtable as Queryable>::get
Memtable_get(m, key) ==
    Ok(IF key \in DOMAIN m THEN Some(m[key]) ELSE None)

-----------------------------------------------------------------------------
(* Log *)

\* A replay loop that skips the lines it cannot decode
RECURSIVE HydrateLines_skip(_, _)
HydrateLines_skip(lines, m) ==
    IF lines = <<>> THEN Ok(Memtable_new(m))
    ELSE LET put == ParsePut(Head(lines))
         IN  IF ~put.ok THEN HydrateLines_skip(Tail(lines), m)
             ELSE HydrateLines_skip(Tail(lines), MapInsert(m, put.key, put.value))

\* The loop of Log::hydrate over the lines of the file
RECURSIVE HydrateLines(_, _)
HydrateLines(lines, m) ==
    IF lines = <<>> THEN Ok(Memtable_new(m))
    ELSE LET put == ParsePut(Head(lines))
         IN  IF ~put.ok THEN Err("Serde")
             ELSE HydrateLines(Tail(lines), MapInsert(m, put.key, put.value))

\* Log::hydrate; openFails: File::open returned an error
Log_hydrate(content, openFails) ==
    IF openFails THEN Err("Io") ELSE HydrateLines(Lines(content), EmptyMap)

\* The loop of <Log as Queryable>::get over the lines of the file
RECURSIVE LogGetLines(_, _, _)
LogGetLines(lines, key, result) ==
    IF lines = <<>> THEN Ok(result)
    ELSE LET put == ParsePut(Head(lines))
         IN  IF ~put.ok THEN Err("Serde")
             ELSE LogGetLines(Tail(lines), key,
                              IF put.key = key THEN Some(put.value) ELSE result)

\* <Log as Queryable>::get
Log_get(content, key) == LogGetLines(Lines(content), key, None)

-----------------------------------------------------------------------------
(* Db *)

\* Db::new after Log::open; openFails: create_dir_all or Log::open returned
\* an error; readFails: File::open in Log::hydrate returned an error
Db_new(content, openFails, readFails) ==
    IF openFails THEN Err("Io") ELSE Log_hydrate(content, readFails)

\* A Db::put that updates the memtable whatever Log::put returned
Db_put_memtable_always(res, m, key, value) == Memtable_put(m, key, value)

\* Db::put after self.log.put(..).await has returned res: `?` returns the
\* error, otherwise the memtable is updated
Db_put_memtable(res, m, key, value) ==
    IF res.tag = "Ok" THEN Memtable_put(m, key, value) ELSE m

\* Db::get
Db_get(m, key) == Memtable_get(m, key)

Prefix(s, n) == SubSeq(s, 1, n)

\* A write to a log file that was not opened with append(true): the bytes
\* go to the start of the file
Log_write_at_start(file, bytes) ==
    bytes \o SubSeq(file, Len(bytes) + 1, Len(file))

\* A write of bytes to the file of Log::open, which is opened with
\* append(true): the bytes go to the end of the file
Log_write(file, bytes) == file \o bytes

NoPut == [key |-> <<>>, value |-> <<>>, data |-> <<>>, preMem |-> <<>>, preLog |-> <<>>]

DbInit ==
    /\ logFile = <<>>
    /\ durableLen = 0
    /\ engine = "Closed"
    /\ memtable = EmptyMap
    /\ pc = "idle"
    /\ cur = NoPut
    /\ lastResult = [op |-> "none"]
    /\ sessionPut = EmptyMap
    /\ everPut = {}
    /\ committed = <<>>
    /\ nPuts = 0
    /\ nFaults = 0

\* The state after the process has started in an empty directory
Init ==
    /\ DbInit
    /\ sstFs = EmptyMap
    /\ sstIn = [path |-> "", data |-> <<>>]
    /\ sstOut = [op |-> "none"]

\* Db::new(dir): opens the log (creating it when absent, never truncating
\* it) and replays it.  lastResult.before is how the engine was closed.
DbNew ==
    /\ engine = "Closed"
    /\ \E openFails \in BOOLEAN, readFails \in BOOLEAN :
         /\ (openFails \/ readFails) => nFaults < MaxFaults
         /\ ~(openFails /\ readFails)
         /\ nFaults' = IF openFails \/ readFails THEN nFaults + 1 ELSE nFaults
         /\ LET res == Db_new(logFile, openFails, readFails)
            IN  /\ lastResult' = [op |-> "new", res |-> res,
                                  io |-> openFails \/ readFails,
                                  before |-> IF lastResult.op = "new"
                                             THEN lastResult.before
                                             ELSE lastResult]
                /\ IF res.tag = "Ok"
                   THEN /\ engine' = "Ready"
                        /\ memtable' = res.val
                   ELSE UNCHANGED <<engine, memtable>>
    /\ UNCHANGED <<logFile, durableLen, pc, cur, sessionPut, everPut, committed, nPuts>>
    /\ UNCHANGED sstVars

\* Db::put(key, value) up to the first write of Log::put: the record is encoded
DbPutBegin ==
    /\ engine = "Ready"
    /\ pc = "idle"
    /\ nPuts < MaxPuts
    /\ \E key \in Keys, value \in Values :
         /\ cur' = [key |-> key, value |-> value, data |-> PutToString(key, value),
                    preMem |-> memtable, preLog |-> logFile]
         /\ everPut' = everPut \cup {key}
    /\ pc' = "write_data"
    /\ lastResult' = [op |-> "busy"]
    /\ nPuts' = nPuts + 1
    /\ UNCHANGED <<logFile, durableLen, engine, memtable, sessionPut, committed,
                   nFaults>>
    /\ UNCHANGED sstVars

\* What Db::put leaves in lastResult when it returns res
PutResult(res) ==
    [op |-> "put", key |-> cur.key, value |-> cur.value, res |-> res,
     preMem |-> cur.preMem, preLog |-> cur.preLog]

\* Db::put returns the error of Log::put: the memtable step is skipped
PutReturnsErr ==
    /\ lastResult' = PutResult(Err("Io"))
    /\ memtable' = Db_put_memtable(Err("Io"), memtable, cur.key, cur.value)
    /\ pc' = "idle"
    /\ cur' = NoPut
    /\ nFaults' = nFaults + 1
    /\ UNCHANGED <<engine, sessionPut, everPut, committed, nPuts>>
    /\ UNCHANGED sstVars

\* self.log.write_all(data.as_bytes()).await succeeds
LogWriteData ==
    /\ pc = "write_data"
    /\ logFile' = Log_write(logFile, cur.data)
    /\ pc' = "write_nl"
    /\ UNCHANGED <<durableLen, engine, memtable, cur, lastResult, sessionPut,
                   everPut, committed, nPuts, nFaults>>
    /\ UNCHANGED sstVars

\* self.log.write_all(data.as_bytes()).await fails after writing n bytes
LogWriteDataFails ==
    /\ pc = "write_data"
    /\ nFaults < MaxFaults
    /\ \E n \in 0..(Len(cur.data) - 1) :
         logFile' = Log_write(logFile, Prefix(cur.data, n))
    /\ PutReturnsErr
    /\ UNCHANGED durableLen

\* self.log.write_all(b"\n").await succeeds
LogWriteNewline ==
    /\ pc = "write_nl"
    /\ logFile' = Log_write(logFile, <<NL>>)
    /\ pc' = "sync"
    /\ UNCHANGED <<durableLen, engine, memtable, cur, lastResult, sessionPut,
                   everPut, committed, nPuts, nFaults>>
    /\ UNCHANGED sstVars

\* self.log.write_all(b"\n").await fails
LogWriteNewlineFails ==
    /\ pc = "write_nl"
    /\ nFaults < MaxFaults
    /\ PutReturnsErr
    /\ UNCHANGED <<logFile, durableLen>>

\* self.log.sync_all().await succeeds: Log::put returns Ok(())
LogSync ==
    /\ pc = "sync"
    /\ durableLen' = Len(logFile)
    /\ committed' = Append(committed, [key |-> cur.key, value |-> cur.value])
    /\ pc' = "mem_put"
    /\ UNCHANGED <<logFile, engine, memtable, cur, lastResult, sessionPut,
                   everPut, nPuts, nFaults>>
    /\ UNCHANGED sstVars

\* self.log.sync_all().await fails
LogSyncFails ==
    /\ pc = "sync"
    /\ nFaults < MaxFaults
    /\ PutReturnsErr
    /\ UNCHANGED <<logFile, durableLen>>

\* self.memtable.put(key, value); Ok(())
DbPutMemtable ==
    /\ pc = "mem_put"
    /\ memtable' = Db_put_memtable(Ok(<<>>), memtable, cur.key, cur.value)
    /\ sessionPut' = MapInsert(sessionPut, cur.key, cur.value)
    /\ lastResult' = PutResult(Ok(<<>>))
    /\ pc' = "idle"
    /\ cur' = NoPut
    /\ UNCHANGED <<logFile, durableLen, engine, everPut, committed, nPuts, nFaults>>
    /\ UNCHANGED sstVars

\* A lookup that inserts an empty value for a key it does not find
Memtable_after_get_insert(m, key) ==
    IF key \in DOMAIN m THEN m ELSE MapInsert(m, key, <<>>)

\* The map after <Memtable as Queryable>::get, which takes &self and only
\* reads self.memtable
Memtable_after_get(m, key) == m

\* Db::get(key)
DbGet ==
    /\ engine = "Ready"
    /\ pc = "idle"
    /\ \E key \in Keys :
         /\ lastResult' = [op |-> "get", key |-> key, res |-> Db_get(memtable, key)]
         /\ memtable' = Memtable_after_get(memtable, key)
    /\ UNCHANGED <<logFile, durableLen, engine, pc, cur, sessionPut,
                   everPut, committed, nPuts, nFaults>>
    /\ UNCHANGED sstVars

\* <Log as Queryable>::get(key) on the log of the Db: the file is opened
\* for reading and its lines are scanned as in Log_get; openFails:
\* File::open returned an error
LogGet ==
    /\ engine = "Ready"
    /\ pc = "idle"
    /\ LET lines == Lines(logFile)
       IN  \E key \in Keys, openFails \in BOOLEAN :
              /\ openFails => nFaults < MaxFaults
              /\ nFaults' = IF openFails THEN nFaults + 1 ELSE nFaults
              /\ lastResult' = [op |-> "log_get", key |-> key,
                                res |-> IF openFails THEN Err("Io")
                                        ELSE LogGetLines(lines, key, None)]
    /\ UNCHANGED <<logFile, durableLen, engine, memtable, pc, cur, sessionPut,
                   everPut, committed, nPuts>>
    /\ UNCHANGED sstVars

\* The Db value is dropped with no put in progress: the engine is closed
DbClose ==
    /\ engine = "Ready"
    /\ pc = "idle"
    /\ engine' = "Closed"
    /\ lastResult' = [op |-> "close", mem |-> memtable]
    /\ memtable' = EmptyMap
    /\ sessionPut' = EmptyMap
    /\ UNCHANGED <<logFile, durableLen, pc, cur, everPut, committed, nPuts, nFaults>>
    /\ UNCHANGED sstVars

\* The bytes the write in progress has still to add to the file
InFlight ==
    IF pc = "write_data" THEN cur.data
    ELSE IF pc = "write_nl" THEN <<NL>>
    ELSE <<>>

\* The process (or the machine) stops at any point.  Of the bytes written
\* since the last completed sync_all, and of the write in progress, any
\* prefix survives.  When the crash interrupts a put(k, v2) that follows a
\* successful put(k, v1) of the session, and the file does not hold the
\* whole second record with its newline, lastResult keeps k and v1.
Crash ==
    /\ engine = "Ready"
    /\ nFaults < MaxFaults
    /\ \E n \in durableLen..Len(logFile \o InFlight) :
         /\ logFile' = Prefix(logFile \o InFlight, n)
         /\ lastResult' =
               IF /\ pc # "idle"
                  /\ n < Len(cur.preLog) + Len(cur.data) + 1
                  /\ cur.key \in DOMAIN sessionPut
               THEN [op |-> "crash", torn |-> TRUE, key |-> cur.key,
                     v1 |-> sessionPut[cur.key]]
               ELSE [op |-> "crash", torn |-> FALSE]
    /\ durableLen' = Len(logFile')
    /\ engine' = "Closed"
    /\ memtable' = EmptyMap
    /\ sessionPut' = EmptyMap
    /\ pc' = "idle"
    /\ cur' = NoPut
    /\ nFaults' = nFaults + 1
    /\ UNCHANGED <<everPut, committed, nPuts>>
    /\ UNCHANGED sstVars

Next ==
    \/ DbNew
    \/ DbPutBegin
    \/ LogWriteData
    \/ LogWriteDataFails
    \/ LogWriteNewline
    \/ LogWriteNewlineFails
    \/ LogSync
    \/ LogSyncFails
    \/ DbPutMemtable
    \/ DbGet
    \/ LogGet
    \/ DbClose
    \/ Crash

Spec == Init /\ [][Next]_vars

-----------------------------------------------------------------------------
(* Sst *)

INDEX_SPLIT == 16

MaxSstRecords == 17

StaleRecords == 3

DigitChars == <<"0", "1", "2", "3", "4", "5", "6", "7", "8", "9">>

\* The decimal text of a u64, as serde_json writes it
RECURSIVE U64ToString(_)
U64ToString(n) ==
    IF n < 10 THEN <<DigitChars[n + 1]>>
    ELSE Append(U64ToString(n \div 10), DigitChars[(n % 10) + 1])

\* format!("{}.data", path) of data_path
DataPath(path) == path \o ".data"

\* format!("{}.data", path) of index_path
IndexPath(path) == path \o ".data"

\* The bytes of the file at path p; a file that does not exist has none
FileOf(fs, p) == IF p \in DOMAIN fs THEN fs[p] ELSE <<>>

\* OpenOptions::new().write(true).create(true).open(p): the file is created
\* when absent and is not truncated
OpenCreate(fs, p) == [q \in (DOMAIN fs) \cup {p} |-> FileOf(fs, q)]

\* A write of bytes at byte position pos (0-based, not past the end) of a
\* file: bytes already there are replaced, the file grows when the write
\* passes its end
WriteAt(content, pos, bytes) ==
    Prefix(content, pos) \o bytes
        \o SubSeq(content, pos + Len(bytes) + 1, Len(content))

NoFault == [kind |-> "none"]

\* The bytes the loop of Sst::construct writes for record i (1-based): the
\* encoded record and a newline
RecordBytes(data, i) == PutToString(data[i].key, data[i].value) \o <<NL>>

\* The bytes the loop of Sst::construct has written after its first k records
RECURSIVE DataBytes(_, _)
DataBytes(data, k) ==
    IF k = 0 THEN <<>> ELSE DataBytes(data, k - 1) \o RecordBytes(data, k)

\* The index the loop of Sst::construct has built after its first k
\* records: every INDEX_SPLIT-th record, from the first, inserts its key
\* with the position of the data file handle before the record is written
RECURSIVE IndexAfter(_, _)
IndexAfter(data, k) ==
    IF k = 0 THEN EmptyMap
    ELSE IF (k - 1) % INDEX_SPLIT = 0
         THEN MapInsert(IndexAfter(data, k - 1), data[k].key,
                        Len(DataBytes(data, k - 1)))
         ELSE IndexAfter(data, k - 1)

\* The loop of Sst::construct over data, on a data file that holds file and
\* whose handle is at position 0: whether it ran to its end, the data file
\* and the index it leaves
ConstructLoop(data, file, fault) ==
    IF fault.kind = "seek"
    THEN [ok |-> FALSE,
          file |-> WriteAt(file, 0, DataBytes(data, fault.idx)),
          index |-> IndexAfter(data, fault.idx)]
    ELSE IF fault.kind = "write"
    THEN [ok |-> FALSE,
          file |-> WriteAt(file, 0, DataBytes(data, fault.idx)
                       \o Prefix(RecordBytes(data, fault.idx + 1), fault.n)),
          index |-> IndexAfter(data, fault.idx + 1)]
    ELSE IF fault.kind = "newline"
    THEN [ok |-> FALSE,
          file |-> WriteAt(file, 0, DataBytes(data, fault.idx)
                       \o PutToString(data[fault.idx + 1].key, data[fault.idx + 1].value)),
          index |-> IndexAfter(data, fault.idx + 1)]
    ELSE [ok |-> TRUE,
          file |-> WriteAt(file, 0, DataBytes(data, Len(data))),
          index |-> IndexAfter(data, Len(data))]

\* The entries of an index in the order given, separated by commas
RECURSIVE IndexEntries(_, _)
IndexEntries(index, order) ==
    IF order = <<>> THEN <<>>
    ELSE (<<"\"">> \o Escape(Head(order)) \o <<"\"", ":">>
            \o U64ToString(index[Head(order)]))
         \o (IF Len(order) > 1 THEN <<",">> ELSE <<>>)
         \o IndexEntries(index, Tail(order))

\* serde_json::to_string(&index) of a HashMap<String, u64> that iterates
\* in the order given
IndexToString(index, order) == <<"{">> \o IndexEntries(index, order) \o <<"}">>

\* The orders in which a HashMap with the keys S may iterate
Orders(S) ==
    {o \in [1..Cardinality(S) -> S] : \A i, j \in 1..Cardinality(S) : o[i] = o[j] => i = j}

\* Sst::construct(path, data) on the file system fs.  fault names the I/O
\* call that fails, order the iteration order of the index.
Sst_construct(fs, path, data, fault, order) ==
    LET data_path == DataPath(path)
        index_path == IndexPath(path)
    IN  IF fault.kind = "open_data" THEN [res |-> Err("Io"), fs |-> fs]
        ELSE LET fs1 == OpenCreate(fs, data_path)
        IN  IF fault.kind = "open_index" THEN [res |-> Err("Io"), fs |-> fs1]
        ELSE LET fs2 == OpenCreate(fs1, index_path)
                 loop == ConstructLoop(data, fs2[data_path], fault)
                 fs3 == [fs2 EXCEPT ![data_path] = loop.file]
        IN  IF ~loop.ok \/ fault.kind = "sync_data" THEN [res |-> Err("Io"), fs |-> fs3]
        ELSE LET index_data == IndexToString(loop.index, order)
        IN  IF fault.kind = "index_write"
            THEN [res |-> Err("Io"),
                  fs |-> [fs3 EXCEPT ![index_path] =
                             WriteAt(fs3[index_path], 0, Prefix(index_data, fault.n))]]
        ELSE LET fs4 == [fs3 EXCEPT ![index_path] = WriteAt(fs3[index_path], 0, index_data)]
        IN  IF fault.kind = "index_newline" THEN [res |-> Err("Io"), fs |-> fs4]
        ELSE LET fs5 == [fs4 EXCEPT ![index_path] =
                            WriteAt(fs4[index_path], Len(index_data), <<NL>>)]
        IN  IF fault.kind = "index_sync" THEN [res |-> Err("Io"), fs |-> fs5]
            ELSE [res |-> Ok([data_path |-> data_path,
                               index_path |-> index_path,
                               index |-> loop.index]),
                  fs |-> fs5]

\* The keys of the first INDEX_SPLIT-th records of data: those the loop
\* puts in the index
IndexedKeys(data) ==
    {data[i].key : i \in {j \in 1..Len(data) : (j - 1) % INDEX_SPLIT = 0}}

\* Inputs of Sst::construct: n records whose keys are the numbers 0..n-1
\* in ascending ("asc") or descending ("desc") order, or the same numbers
\* written with two digits, which ascend in the order of String too
\* ("sorted"), or one key n times ("dup"); the values alternate
SstShapes == {"asc", "desc", "sorted", "dup"}

SstValue(i) == IF i % 2 = 0 THEN <<"x">> ELSE <<"\"", "y">>

SstData(n, shape) ==
    [i \in 1..n |->
        [key |-> IF shape = "asc" THEN U64ToString(i - 1)
                 ELSE IF shape = "desc" THEN U64ToString(n - i)
                 ELSE IF shape = "sorted"
                 THEN <<DigitChars[((i - 1) \div 10) + 1], DigitChars[((i - 1) % 10) + 1]>>
                 ELSE <<"a">>,
         value |-> SstValue(i)]]

SstPaths == {"sst"}

\* The I/O calls of one Sst::construct(data) that may fail, with the
\* number of bytes a failing write_all has written; indexLen is the length
\* of the encoded index
SstFaults(data, indexLen) ==
    {[kind |-> k] : k \in {"open_data", "open_index", "sync_data",
                           "index_newline", "index_sync"}}
    \cup {[kind |-> "seek", idx |-> i] :
             i \in {j \in 0..(Len(data) - 1) : j % INDEX_SPLIT = 0}}
    \cup {[kind |-> "newline", idx |-> i] : i \in 0..(Len(data) - 1)}
    \cup UNION {{[kind |-> "write", idx |-> i, n |-> n] :
                    n \in 0..(Len(PutToString(data[i + 1].key, data[i + 1].value)) - 1)} :
                i \in 0..(Len(data) - 1)}
    \cup {[kind |-> "index_write", n |-> n] : n \in 0..(indexLen - 1)}

SstStep(path, data, fault, order) ==
    LET out == Sst_construct(sstFs, path, data, fault, order)
    IN  /\ sstFs' = out.fs
        /\ sstIn' = [path |-> path, data |-> data]
        /\ sstOut' = [op |-> "construct", res |-> out.res]
        /\ UNCHANGED dbVars

\* Sst::construct(path, data) returns Ok(Sst)
SstConstruct ==
    /\ sstOut.op = "none"
    /\ \E path \in SstPaths, n \in 0..MaxSstRecords, shape \in SstShapes :
         LET data == SstData(n, shape)
         IN  \E order \in Orders(IndexedKeys(data)) :
                SstStep(path, data, NoFault, order)

\* Sst::construct(path, data) returns an error at one of its I/O calls
SstConstructFails ==
    /\ sstOut.op = "none"
    /\ \E path \in SstPaths, n \in 0..MaxSstRecords, shape \in SstShapes :
         LET data == SstData(n, shape)
         IN  \E order \in Orders(IndexedKeys(data)) :
                LET whole == Sst_construct(sstFs, path, data, NoFault, order)
                    indexLen == Len(IndexToString(whole.res.val.index, order))
                IN  \E fault \in SstFaults(data, indexLen) :
                       SstStep(path, data, fault, order)

\* The characters of the model's strings in the order of their bytes
ByteOrder == <<"\"", "0", "1", "2", "3", "4", "5", "6", "7", "8", "9", "\\",
               "a", "b", "x", "y">>

ByteRank(c) == CHOOSE i \in 1..Len(ByteOrder) : ByteOrder[i] = c

\* a <= b in the order of String: byte by byte, a proper prefix first
RECURSIVE StringLeq(_, _)
StringLeq(a, b) ==
    IF a = <<>> THEN TRUE
    ELSE IF b = <<>> THEN FALSE
    ELSE IF Head(a) # Head(b) THEN ByteRank(Head(a)) < ByteRank(Head(b))
    ELSE StringLeq(Tail(a), Tail(b))

\* The index entry a lookup of key starts from: the greatest indexed key
\* that is <= key, or the least indexed key when key precedes them all
Sst_floor(index, key) ==
    LET below == {k \in DOMAIN index : StringLeq(k, key)}
        from  == IF below # {} THEN below ELSE DOMAIN index
    IN  IF below # {}
        THEN CHOOSE k \in from : \A j \in from : StringLeq(j, k)
        ELSE CHOOSE k \in from : \A j \in from : StringLeq(k, j)

\* The scan of a lookup over the lines that follow the offset: at most n
\* records are decoded and the first with the key is returned
RECURSIVE Sst_scan(_, _, _)
Sst_scan(lines, key, n) ==
    IF lines = <<>> \/ n = 0 THEN Ok(None)
    ELSE LET put == ParsePut(Head(lines))
         IN  IF ~put.ok THEN Err("Serde")
             ELSE IF put.key = key THEN Ok(Some(put.value))
             ELSE Sst_scan(Tail(lines), key, n - 1)

\* Lookup of key on a Segment, which the source declares (struct Sst) but
\* does not implement; it follows section 4.3 of the specification: the
\* data file is read from the offset of the index entry found by Sst_floor
\* and at most INDEX_SPLIT records are scanned
Sst_get(fs, sst, key) ==
    IF DOMAIN sst.index = {} THEN Ok(None)
    ELSE LET file == FileOf(fs, sst.data_path)
             offset == sst.index[Sst_floor(sst.index, key)]
         IN  Sst_scan(Lines(SubSeq(file, offset + 1, Len(file))), key, INDEX_SPLIT)

\* A lookup, on the Sst that Sst::construct returned, of a key of its input
SstGet ==
    /\ sstOut.op = "construct"
    /\ sstOut.res.tag = "Ok"
    /\ \E i \in 1..Len(sstIn.data) :
         sstOut' = [op |-> "get", sst |-> sstOut.res.val, key |-> sstIn.data[i].key,
                    res |-> Sst_get(sstFs, sstOut.res.val, sstIn.data[i].key)]
    /\ UNCHANGED <<sstFs, sstIn>>
    /\ UNCHANGED dbVars

\* Sst::construct is applied to a path where no file exists yet, or
\* where an earlier Sst::construct has left its file
InitSst ==
    /\ DbInit
    /\ sstFs \in {EmptyMap}
           \cup {Sst_construct(EmptyMap, path, SstData(StaleRecords, "asc"), NoFault,
                               <<U64ToString(0)>>).fs : path \in SstPaths}
    /\ sstIn = [path |-> "", data |-> <<>>]
    /\ sstOut = [op |-> "none"]

NextSst ==
    \/ SstConstruct
    \/ SstConstructFails
    \/ SstGet

SpecSst == InitSst /\ [][NextSst]_vars

-----------------------------------------------------------------------------
(* Properties of the engine *)

\* Last-write-wins fold of a sequence of records
RECURSIVE Fold(_, _)
Fold(recs, m) ==
    IF recs = <<>> THEN m
    ELSE Fold(Tail(recs), MapInsert(m, Head(recs).key, Head(recs).value))

\* TRUE iff some line of the file does not decode to a record
Malformed(content) ==
    LET lines == Lines(content)
    IN  \E i \in 1..Len(lines) : ~ParsePut(lines[i]).ok

\* Db::new is the last operation that ran, and no put has started since
AfterNew == lastResult.op = "new" /\ pc = "idle"

\* C1: read-your-writes.  A Db::get(k) that follows a successful put(k, v)
\* of the same session returns Ok(Some(v)) for the last such v, whatever
\* was put to other keys in between.
C1_ReadYourWrites ==
    (lastResult.op = "get" /\ lastResult.key \in DOMAIN sessionPut)
        => lastResult.res = Ok(Some(sessionPut[lastResult.key]))

\* C1 witness: a get of a key that was put twice with different values
C1_Witness ==
    /\ lastResult.op = "get"
    /\ Len(committed) = 2
    /\ committed[1].key = lastResult.key
    /\ committed[2].key = lastResult.key
    /\ committed[1].value # committed[2].value
    /\ DOMAIN sessionPut = {lastResult.key}
    /\ lastResult.res = Ok(Some(committed[2].value))

\* C2 (as claimed): after a clean close, a successful Db::new yields a
\* Memtable equal to the one held before the close.
C2_ReopenSameMemtable ==
    (AfterNew /\ lastResult.res.tag = "Ok" /\ lastResult.before.op = "close")
        => memtable = lastResult.before.mem

\* C3 (as claimed): put(k, v1) completed, the process crashed during
\* put(k, v2) before the whole record and its newline reached the file;
\* then Db::new succeeds and the recovered Memtable maps k to v1.
C3_CrashRecovery ==
    (/\ AfterNew
     /\ ~lastResult.io
     /\ lastResult.before.op = "crash"
     /\ lastResult.before.torn)
        => /\ lastResult.res.tag = "Ok"
           /\ engine = "Ready"
           /\ lastResult.before.key \in DOMAIN memtable
           /\ memtable[lastResult.before.key] = lastResult.before.v1

\* C4 (as claimed): whenever the engine is Ready and no put is in progress,
\* the Memtable is the last-write-wins fold of the records durably appended
\* to the log.
C4_MemtableIsReplay ==
    (engine = "Ready" /\ pc = "idle") => memtable = Fold(committed, EmptyMap)

\* C5: a Db::put that returns an error leaves the Memtable as it was when
\* the put was called.
C5_FailedPutKeepsMemtable ==
    (lastResult.op = "put" /\ lastResult.res.tag = "Err")
        => memtable = lastResult.preMem

\* C5 witness: a put failed after changing the log, with a Memtable that
\* holds another value for the same key
C5_Witness ==
    /\ lastResult.op = "put"
    /\ lastResult.res.tag = "Err"
    /\ logFile # lastResult.preLog
    /\ lastResult.key \in DOMAIN memtable
    /\ memtable[lastResult.key] # lastResult.value

\* C6 (as claimed): a Log::put that returns an error leaves the bytes of
\* the log file as they were when it was called.
C6_FailedAppendKeepsLog ==
    (lastResult.op = "put" /\ lastResult.res.tag = "Err")
        => logFile = lastResult.preLog

\* C7: a Db::get of a key that no Db::put was ever called with returns
\* Ok(None): absent, and not an error.
C7_GetUnwrittenIsAbsent ==
    (lastResult.op = "get" /\ lastResult.key \notin everPut)
        => lastResult.res = Ok(None)

\* C7 witness: a get of a key never put, in a session opened on a log that
\* holds a record of another key
C7_Witness ==
    /\ lastResult.op = "get"
    /\ lastResult.key \notin everPut
    /\ everPut # {}
    /\ committed # <<>>
    /\ sessionPut = EmptyMap

\* C8: when a line of the log is malformed, Db::new returns an error (the
\* Serde error of Log::hydrate when no I/O error came first) and no Db
\* exists; a Db exists only once Db::new has replayed a log without
\* malformed line.
C8_ReplayFailureIsTerminal ==
    /\ (AfterNew /\ Malformed(logFile))
          => /\ lastResult.res.tag = "Err"
             /\ engine = "Closed"
             /\ ~lastResult.io => lastResult.res = Err("Serde")
    /\ (AfterNew /\ engine = "Ready")
          => lastResult.res.tag = "Ok" /\ ~Malformed(logFile)

\* C8 witness: Db::new has failed with a Serde error on a log whose first
\* line is a record and whose second line is malformed
C8_Witness ==
    /\ AfterNew
    /\ ~lastResult.io
    /\ lastResult.res = Err("Serde")
    /\ Len(Lines(logFile)) = 2
    /\ ParsePut(Lines(logFile)[1]).ok
    /\ ~ParsePut(Lines(logFile)[2]).ok

\* The records the lines of a well-formed log decode to, in file order
Records(content) ==
    LET lines == Lines(content)
    IN  [i \in 1..Len(lines) |->
            [key |-> ParsePut(lines[i]).key, value |-> ParsePut(lines[i]).value]]

\* C12 (as claimed): on a well-formed log, Log::hydrate returns the Memtable
\* that is the last-write-wins fold of the records in file order: its keys
\* are the keys of the log and each maps to the value of its last record.
C12_ReplayIsFold ==
    (AfterNew /\ ~lastResult.io /\ ~Malformed(logFile))
        => lastResult.res = Ok(Fold(Records(logFile), EmptyMap))

\* TRUE iff s is a prefix of t
IsPrefix(s, t) == Len(s) <= Len(t) /\ Prefix(t, Len(s)) = s

\* C13: the log is append-only.  Every step of put, get, Db::new (with
\* Log::open and Log::hydrate) and close leaves the log content it found as
\* a prefix of the log content it leaves, and a Db::put that returns Ok has
\* added to the end of the log exactly its encoded record and one newline,
\* also when the key was already there.  (A crash, which may drop bytes that
\* were never synced, is not an operation of the program.)
C13_AppendOnly ==
    [][/\ lastResult'.op # "crash" => IsPrefix(logFile, logFile')
       /\ (lastResult'.op = "put" /\ lastResult'.res.tag = "Ok")
             => logFile' = lastResult'.preLog
                              \o PutToString(lastResult'.key, lastResult'.value)
                              \o <<NL>>]_vars

\* C13 witness: a second put of a key has returned Ok on a log that held
\* the record of the first
C13_Witness ==
    /\ lastResult.op = "put"
    /\ lastResult.res.tag = "Ok"
    /\ Len(committed) = 2
    /\ committed[1].key = committed[2].key
    /\ lastResult.preLog = PutToString(committed[1].key, committed[1].value) \o <<NL>>
    /\ Len(Lines(logFile)) = 2

\* C14 (as claimed): in every state, also in the middle of a put and after
\* a reopen, every entry (k, v) of the Memtable is backed by the log: the last
\* record with key k in the synced part of the log file has value v.
C14_WriteAhead ==
    \A k \in DOMAIN memtable :
        Log_get(Prefix(logFile, durableLen), k) = Ok(Some(memtable[k]))

\* C15 (as claimed): puts run one after the other (Db::put takes &mut self,
\* so pc holds at most one put in progress), hence once every put that was
\* issued has returned, the Memtable holds for each of its keys the value of
\* the last record with that key in the log.
C15_PutsSerialized ==
    (engine = "Ready" /\ pc = "idle")
        => \A k \in DOMAIN memtable : Log_get(logFile, k) = Ok(Some(memtable[k]))

\* C16: reads change nothing.  A Db::get (which is Memtable::get) and a
\* Log::get leave the Memtable and the bytes of the log as they were,
\* whether they return a value, absent or an error; and a get that follows
\* a get of the same kind and key, with no other step in between, returns
\* the same result (a failure of File::open, which the state of the store
\* does not decide, set aside).
C16_ReadsChangeNothing ==
    [][lastResult'.op \in {"get", "log_get"}
         => /\ memtable' = memtable
            /\ logFile' = logFile
            /\ (/\ lastResult.op = lastResult'.op
                /\ lastResult.key = lastResult'.key
                /\ lastResult.res # Err("Io")
                /\ lastResult'.res # Err("Io"))
                  => lastResult'.res = lastResult.res]_vars

\* C16 witness: a Log::get has returned an error on a log with a malformed
\* line, in a session whose Memtable holds an entry
C16_Witness ==
    /\ lastResult.op = "log_get"
    /\ lastResult.res = Err("Serde")
    /\ memtable # EmptyMap
    /\ Malformed(logFile)

-----------------------------------------------------------------------------
(* Properties of Sst::construct *)

UniqueKeys(data) ==
    \A i, j \in 1..Len(data) : data[i].key = data[j].key => i = j

CeilDiv(n, k) == (n + k - 1) \div k

ConstructedOk == sstOut.op = "construct" /\ sstOut.res.tag = "Ok"

\* C9 (as claimed): Sst::construct on N records with unique keys returns an
\* index of ceil(N / 16) entries, one for each record at position 0, 16,
\* 32, ..., and at each entry's offset the data file holds that record.
C9_SparseIndexShape ==
    (ConstructedOk /\ UniqueKeys(sstIn.data))
        => LET sst == sstOut.res.val
               data == sstIn.data
           IN  /\ Cardinality(DOMAIN sst.index) = CeilDiv(Len(data), INDEX_SPLIT)
               /\ \A i \in 1..Len(data) :
                     (i - 1) % INDEX_SPLIT = 0
                        => /\ data[i].key \in DOMAIN sst.index
                           /\ HasAt(FileOf(sstFs, sst.data_path),
                                    sst.index[data[i].key] + 1,
                                    RecordBytes(data, i))

\* C10 (as claimed): Sst::construct writes the data file and the index file
\* to two distinct paths, and when it returns Ok the data file holds exactly
\* the input records in input order, one per line.
C10_DataFileIntact ==
    ConstructedOk
        => /\ sstOut.res.val.data_path # sstOut.res.val.index_path
           /\ FileOf(sstFs, sstOut.res.val.data_path)
                 = DataBytes(sstIn.data, Len(sstIn.data))

\* A full scan of the data file of a Segment for key, as <Log as
\* Queryable>::get scans the log
FullScan(fs, sst, key) ==
    LogGetLines(Lines(FileOf(fs, sst.data_path)), key, None)

\* The keys of data ascend strictly in the order of String
SortedKeys(data) ==
    \A i \in 1..(Len(data) - 1) :
        StringLeq(data[i].key, data[i + 1].key) /\ data[i].key # data[i + 1].key

\* C11 (as claimed): for every key of a Segment constructed from records
\* whose keys ascend, the lookup guided by the sparse index returns what a
\* full scan of the Segment's data file returns.
C11_IndexedLookupIsScan ==
    (sstOut.op = "get" /\ SortedKeys(sstIn.data))
        => sstOut.res = FullScan(sstFs, sstOut.sst, sstOut.key)

====
